---- MODULE Spec2Model ----
(***************************************************************************)
(* Model of MStreet3/depinject: the heartbeat generators (heartbeat.Beatn, *)
(* heartbeat.BeatUntil), the stream engines of worker/v4 (randIntStream,   *)
(* and RandIntStream with its ticker field: "v4t"), v2, v6 and v7, config  *)
(* package and the constructors.  Goroutines are processes with a program counter;   *)
(* an unbuffered channel send is a rendezvous of the sender's and the      *)
(* receiver's step; a receive on a closed channel succeeds at once; a      *)
(* select with several ready cases takes any one of them.                  *)
(***************************************************************************)
EXTENDS Integers, Sequences, FiniteSets, TLC

\* ------------------------------------------------------------------ bounds
MaxN == 2          \* largest n handed to Beatn
MaxOut == MaxN + 1 \* most results the consumers accept
MaxOpts == 2       \* options handed to a constructor
DefaultPulseWidth == 250  \* newConfig: d, in milliseconds

Loops == {1, 2}    \* the calls of Start / worker on the engine
Tokens == Loops    \* call l may bring a context of its own, context l

\* ------------------------------------------------------------ value domains
Nil == <<"nil">>
BeatnHb == <<"Beatn">>                \* the pulse channel returned by Beatn
UntilHb(u) == <<"BeatUntil", u>>      \* the channel made by the u-th BeatUntil
Ctx(t) == <<"ctx", t>>                \* ctx.Done() of context t
BeatnDone == <<"done">>               \* the done channel returned by Beatn
Config(d) == <<"config", d>>          \* &config{d: d}, d in milliseconds

RandInts == 2..3                      \* values rand.Int() may return

NoEngine == [ver |-> "none", config |-> Nil, hb |-> Nil, worker |-> "none"]

VARIABLES
  calls,       \* the number of Start / worker calls the caller makes
  callers,     \* the goroutines that make these calls: 1 (one call after
               \* the other) or 2 (the calls may overlap)
  budget,      \* the results the consumers accept before they stop receiving
  conf,        \* the config the caller got from config.NewConfig (Nil before)
  bPc,         \* Beatn goroutine: "none", "send", "closeHb", "closeDone", "done"
  bN,          \* Beatn: n
  bI,          \* Beatn: loop counter i = pulses handed to a receiver
  bHbClosed,   \* Beatn: hb is closed
  bDoneClosed, \* Beatn: done is closed
  cancelled,   \* cancelled[t]: context t's Done channel is closed
  r,           \* the engine struct (NoEngine before construction / on error)
  err,         \* "none" before construction, else "nil" or "error"
  call,        \* the name of the constructor called ("none" before)
  uPc,         \* BeatUntil goroutine u: "none", "select", "send", "done"
  uStop,       \* BeatUntil u: its stop channel
  uD,          \* BeatUntil u: its interval d, in milliseconds
  ePc,         \* engine call l: "idle","check","create","return","select","send","done","panic"
  eStop,       \* engine call l: stop channel
  eSrc,        \* engine call l: the local heartbeat channel
  eVal,        \* engine call l: the value pending on values <- val
  eErr,        \* engine call l: the last work() returned an error (dropped)
  log,         \* engine call l: values returned by work(), in call order
  out,         \* engine call l: values received by the consumer of values
  vClosed,     \* engine call l: values is closed
  consuming,   \* engine call l: the consumer is still ranging over values
  pre          \* engine call l: stop was closed while no pulse had been received

vars == <<calls, callers, budget, conf, bPc, bN, bI, bHbClosed, bDoneClosed, cancelled, r, err, call, uPc, uStop, uD,
          ePc, eStop, eSrc, eVal, eErr, log, out, vClosed, consuming, pre>>

callerVars == <<calls, callers, budget, conf>>
beatnVars == <<bPc, bN, bI, bHbClosed, bDoneClosed>>
engVars == <<r, err, call>>
untilVars == <<uPc, uStop, uD>>
loopVars == <<ePc, eStop, eSrc, eVal, eErr, log, out, vClosed, consuming, pre>>

\* --------------------------------------------------------------- channels
\* A receive on stop channel s can proceed (the channel is closed).
IsClosed(s) ==
  IF s = BeatnDone THEN bDoneClosed
  ELSE IF s = Nil THEN FALSE
  ELSE cancelled[s[2]]

\* Pulses received so far by engine call l (each one starts a work call).
Received(l) == Len(log[l])

\* Nothing is made yet: no source, no engine, no call.
Fresh ==
  /\ conf = Nil
  /\ bPc = "none" /\ bN = 0 /\ bI = 0
  /\ bHbClosed = FALSE /\ bDoneClosed = FALSE
  /\ cancelled = [t \in Tokens |-> FALSE]
  /\ r = NoEngine /\ err = "none" /\ call = "none"
  /\ uPc = [u \in Loops |-> "none"]
  /\ uStop = [u \in Loops |-> Nil]
  /\ uD = [u \in Loops |-> 0]
  /\ ePc = [l \in Loops |-> "idle"]
  /\ eStop = [l \in Loops |-> Nil]
  /\ eSrc = [l \in Loops |-> Nil]
  /\ eVal = [l \in Loops |-> 0]
  /\ eErr = [l \in Loops |-> FALSE]
  /\ log = [l \in Loops |-> <<>>]
  /\ out = [l \in Loops |-> <<>>]
  /\ vClosed = [l \in Loops |-> FALSE]
  /\ consuming = [l \in Loops |-> TRUE]
  /\ pre = [l \in Loops |-> FALSE]

\* The baseline use: the caller starts the engine once.
Init == Fresh /\ calls = 1 /\ callers = 1 /\ budget = MaxOut

\* Two goroutines start the engine, once each.
InitTwo == Fresh /\ calls = 2 /\ callers = 2 /\ budget = 1

\* One goroutine starts the engine twice, the second call after the first
\* has returned.
InitSeq == Fresh /\ calls = 2 /\ callers = 1 /\ budget = 1

\* ------------------------------------------------------- heartbeat.Beatn
\* Beatn(n): make hb and done, spawn the goroutine; it is at hb <- Beat{}
\* when i < n and otherwise runs its deferred closes.  The caller makes the
\* source before it constructs the engine.
Beatn(n) ==
  /\ bPc = "none"
  /\ err = "none"
  /\ bN' = n /\ bI' = 0
  /\ bPc' = IF 0 < n THEN "send" ELSE "closeHb"
  /\ UNCHANGED <<callerVars, bHbClosed, bDoneClosed, cancelled>>
  /\ UNCHANGED <<engVars, untilVars, loopVars>>

\* (as BeatnAfterSend, the loop test written i <= n)
BeatnAfterSend_OffByOne(i, n) == IF i <= n THEN "send" ELSE "closeHb"

\* The goroutine's position after hb <- Beat{} was received and i++ ran.
BeatnAfterSend(i, n) == IF i < n THEN "send" ELSE "closeHb"

\* A stop channel that closes marks the calls that have received no pulse.
PreAfterClose(s) ==
  [l \in Loops |-> pre[l] \/ (ePc[l] # "idle" /\ eStop[l] = s /\ Received(l) = 0)]

\* (as BeatnCloseHb, the deferred closes running in the order written:
\* done first)
BeatnCloseHb_DoneFirst ==
  /\ bPc = "closeHb"
  /\ bDoneClosed' = TRUE
  /\ bPc' = "closeDone"
  /\ pre' = PreAfterClose(BeatnDone)
  /\ UNCHANGED <<callerVars, bN, bI, bHbClosed, cancelled>>
  /\ UNCHANGED <<engVars, untilVars>>
  /\ UNCHANGED <<ePc, eStop, eSrc, eVal, eErr, log, out, vClosed, consuming>>

\* defer close(hb): runs first (deferred last).
BeatnCloseHb ==
  /\ bPc = "closeHb"
  /\ bHbClosed' = TRUE
  /\ bPc' = "closeDone"
  /\ UNCHANGED <<callerVars, bN, bI, bDoneClosed, cancelled>>
  /\ UNCHANGED <<engVars, untilVars, loopVars>>

\* defer close(done): runs second.
BeatnCloseDone ==
  /\ bPc = "closeDone"
  /\ bDoneClosed' = TRUE
  /\ bPc' = "done"
  /\ pre' = PreAfterClose(BeatnDone)
  /\ UNCHANGED <<callerVars, bN, bI, bHbClosed, cancelled>>
  /\ UNCHANGED <<engVars, untilVars>>
  /\ UNCHANGED <<ePc, eStop, eSrc, eVal, eErr, log, out, vClosed, consuming>>

\* ----------------------------------------------------------------- config
\* newConfig: the default config.
newConfig == Config(DefaultPulseWidth)

\* WithPulseWidth(d) applied to config cfg.
WithPulseWidth(d, cfg) == Config(d)

\* (as NewConfig, the options never applied)
RECURSIVE NewConfigFrom_OptsIgnored(_, _)
NewConfigFrom_OptsIgnored(cfg, opts) ==
  IF opts = <<>> THEN cfg
  ELSE NewConfigFrom_OptsIgnored(cfg, Tail(opts))

\* NewConfig, for _, fn := range opts { fn(cfg) }; opts is the sequence of
\* durations handed to WithPulseWidth.
RECURSIVE NewConfigFrom(_, _)
NewConfigFrom(cfg, opts) ==
  IF opts = <<>> THEN cfg
  ELSE NewConfigFrom(WithPulseWidth(Head(opts), cfg), Tail(opts))

\* NewConfig(opts...): a copy of the default config after the options ran.
NewConfig(opts) == Config(NewConfigFrom(newConfig, opts)[2])

\* c.PulseWidth().
PulseWidth(c) == c[2]

\* c.PulseInterval(): the accessor of the config handed to the v4 engines
\* (the same struct and constructor under the names newDefaultConfig,
\* WithPulseInterval and PulseInterval).
PulseInterval(c) == c[2]

\* The durations a caller hands to WithPulseWidth, and the option lists.
Durations == {0, 500}
PulseOpts == UNION {[1..k -> Durations] : k \in 0..MaxOpts}

\* cfg := config.NewConfig(opts...), before the engine is constructed.
CallNewConfig(opts) ==
  /\ conf = Nil
  /\ err = "none"
  /\ conf' = NewConfig(opts)
  /\ UNCHANGED <<calls, callers, budget, beatnVars, cancelled, engVars, untilVars,
                  loopVars>>

\* ------------------------------------------------------------ cancellation
\* cancel() of context t (or its timeout), after it was handed to the engine:
\* ctx.Done() is closed, once.
Cancel(t) ==
  /\ ~cancelled[t]
  /\ \E l \in Loops : ePc[l] # "idle" /\ eStop[l] = Ctx(t)
  /\ cancelled' = [cancelled EXCEPT ![t] = TRUE]
  /\ pre' = PreAfterClose(Ctx(t))
  /\ UNCHANGED <<callerVars, beatnVars, engVars, untilVars>>
  /\ UNCHANGED <<ePc, eStop, eSrc, eVal, eErr, log, out, vClosed, consuming>>

\* ------------------------------------------------------------ constructors
\* newOption: the heartbeat channel of a fresh option is nil.
newOption == [ticker |-> Nil]

\* WithHeartbeat(hb) applied to option o.
WithHeartbeat(hb, o) == [o EXCEPT !.ticker = hb]

\* for _, fn := range opts { fn(o) }; opts is the sequence of channels handed
\* to WithHeartbeat.
RECURSIVE ApplyOpts(_, _)
ApplyOpts(o, opts) ==
  IF opts = <<>> THEN o
  ELSE ApplyOpts(WithHeartbeat(Head(opts), o), Tail(opts))

\* (as NewRandIntStream_v4, the test written with || for &&)
NewRandIntStream_v4_Or(cfg, opts) ==
  LET o == ApplyOpts(newOption, opts)
      ris == [ver |-> "v4", config |-> cfg, hb |-> o.ticker, worker |-> "randInt"]
  IN IF ris.config = Nil \/ ris.hb = Nil
     THEN [r |-> NoEngine, err |-> "error"]
     ELSE [r |-> ris, err |-> "nil"]

\* v4 NewRandIntStream(cfg, opts...).
NewRandIntStream_v4(cfg, opts) ==
  LET o == ApplyOpts(newOption, opts)
      ris == [ver |-> "v4", config |-> cfg, hb |-> o.ticker, worker |-> "randInt"]
  IN IF ris.config = Nil /\ ris.hb = Nil
     THEN [r |-> NoEngine, err |-> "error"]
     ELSE [r |-> ris, err |-> "nil"]

\* v2 NewRandIntStream(hb): no test, no error.
NewRandIntStream_v2(hb) ==
  [r |-> [ver |-> "v2", config |-> Nil, hb |-> hb, worker |-> "randInt"],
   err |-> "nil"]

\* v4 NewRandIntStream(cfg, opts...) of RandIntStream{cfg, ticker}.
NewRandIntStream_v4t(cfg, opts) ==
  LET o == ApplyOpts(newOption, opts)
      ris == [ver |-> "v4t", config |-> cfg, hb |-> o.ticker, worker |-> "randInt"]
  IN IF ris.config = Nil /\ ris.hb = Nil
     THEN [r |-> NoEngine, err |-> "error"]
     ELSE [r |-> ris, err |-> "nil"]

\* (as NewRandIntStreamf, the nil test left out)
NewRandIntStreamf_Unchecked(hb) ==
  [r |-> [ver |-> "v6", config |-> Nil, hb |-> hb, worker |-> "randInt"],
   err |-> "nil"]

\* v6 NewRandIntStreamf(hb).
NewRandIntStreamf(hb) ==
  IF hb = Nil
  THEN [r |-> NoEngine, err |-> "error"]
  ELSE [r |-> [ver |-> "v6", config |-> Nil, hb |-> hb, worker |-> "randInt"],
        err |-> "nil"]

\* v6 NewRandIntStream(cfg).
NewRandIntStream_v6(cfg) ==
  IF cfg = Nil
  THEN [r |-> NoEngine, err |-> "error"]
  ELSE [r |-> [ver |-> "v6", config |-> cfg, hb |-> Nil, worker |-> "randInt"],
        err |-> "nil"]

\* v7 NewResultStreamf(hb).
NewResultStreamf(hb) ==
  IF hb = Nil
  THEN [r |-> NoEngine, err |-> "error"]
  ELSE [r |-> [ver |-> "v7", config |-> Nil, hb |-> hb, worker |-> "randInt"],
        err |-> "nil"]

\* (as NewResultStream, the nil test left out)
NewResultStream_Unchecked(cfg) ==
  [r |-> [ver |-> "v7", config |-> cfg, hb |-> Nil, worker |-> "randInt"],
   err |-> "nil"]

\* v7 NewResultStream(cfg).
NewResultStream(cfg) ==
  IF cfg = Nil
  THEN [r |-> NoEngine, err |-> "error"]
  ELSE [r |-> [ver |-> "v7", config |-> cfg, hb |-> Nil, worker |-> "randInt"],
        err |-> "nil"]

\* The channels and configs a caller can hand to a constructor: a caller
\* that has made a Beatn source hands its channel over, a caller that has
\* made a config hands that over, any other has only nil to give.
HbArgs == IF bPc = "none" THEN {Nil} ELSE {BeatnHb}
CfgArgs == IF conf = Nil THEN {Nil} ELSE {conf}
OptArgs == UNION {[1..k -> {Nil} \cup HbArgs] : k \in 0..MaxOpts}

\* The caller keeps what the constructor returned.
Constructed(fn, res) ==
  /\ err = "none"
  /\ r' = res.r
  /\ err' = res.err
  /\ call' = fn
  /\ UNCHANGED <<callerVars, beatnVars, cancelled, untilVars, loopVars>>

CallNewRandIntStream_v4(cfg, opts) ==
  Constructed("v4.NewRandIntStream", NewRandIntStream_v4(cfg, opts))

CallNewRandIntStream_v2(hb) ==
  Constructed("v2.NewRandIntStream", NewRandIntStream_v2(hb))

CallNewRandIntStream_v4t(cfg, opts) ==
  Constructed("v4.NewRandIntStream(ticker)", NewRandIntStream_v4t(cfg, opts))

CallNewRandIntStreamf(hb) ==
  Constructed("v6.NewRandIntStreamf", NewRandIntStreamf(hb))

CallNewRandIntStream_v6(cfg) ==
  Constructed("v6.NewRandIntStream", NewRandIntStream_v6(cfg))

CallNewResultStreamf(hb) ==
  Constructed("v7.NewResultStreamf", NewResultStreamf(hb))

CallNewResultStream(cfg) ==
  Constructed("v7.NewResultStream", NewResultStream(cfg))

\* The workers code of package v7 can put into the struct: the constant-1
\* worker of the test, or a worker whose work() can fail.
Workers == {"ones", "failing"}

\* The v7 test builds the struct directly around a Beatn channel and a
\* worker: &resultStream[int]{hb: hb, worker: ones{}}.
TestResultStream(w) ==
  /\ bPc # "none"
  /\ conf = Nil
  /\ Constructed("v7.resultStream{}",
                 [r |-> [ver |-> "v7", config |-> Nil, hb |-> BeatnHb,
                         worker |-> w],
                  err |-> "nil"])

\* ------------------------------------------------------------- the engine
\* The stop channels a caller can hand to call l: ctx.Done() of a context of
\* its own (cancelled already, or not yet), ctx.Done() of the context of an
\* earlier call, or (the tests' worker(isTicking)) Beatn's done channel.
StopArgs(l) ==
  {<<Ctx(l), fired>> : fired \in BOOLEAN}
    \cup {<<Ctx(t), cancelled[t]>> : t \in 1..(l - 1)}
    \cup (IF r.hb = BeatnHb THEN {<<BeatnDone, bDoneClosed>>} ELSE {})

\* (as Stores, no engine keeping the channel its getHeartbeat made)
Stores_None(ver) == FALSE

\* The v4 engines return the channel they made without storing it.
Stores(ver) == ver \notin {"v4", "v4t"}

\* The send of a result is in a select with the stop case (all but v2 and
\* v4t, whose loops have the bare values <- doWork() / values <- rand.Int()).
InnerSelect(ver) == ver \notin {"v2", "v4t"}

\* The engine has a getHeartbeat / getTicker (all but v2, whose loop
\* receives from r.hb itself).
Resolves(ver) == ver # "v2"

\* Call k has not returned to its caller: worker / serve call getHeartbeat
\* before they spawn the loop (v4t spawns first and calls getTicker inside
\* the goroutine); a panic in getHeartbeat ends the calling goroutine.
InCall(k) ==
  r.ver # "v4t" /\ ePc[k] \in {"check", "create", "return", "panic"}

\* Start(ctx) / worker(stop) / serve(stop), up to the call of getHeartbeat:
\* values is made.  arg is the stop channel and whether it is closed.  A
\* goroutine makes its next call when the one before has returned.
Start(l, arg) ==
  /\ err = "nil"
  /\ l <= calls
  /\ ePc[l] = "idle"
  /\ \A k \in 1..(l - 1) : ePc[k] # "idle"
  /\ callers = 1 => \A k \in 1..(l - 1) : ~InCall(k)
  /\ ePc' = [ePc EXCEPT ![l] = IF Resolves(r.ver) THEN "check" ELSE "select"]
  /\ eSrc' = [eSrc EXCEPT ![l] = IF Resolves(r.ver) THEN @ ELSE r.hb]
  /\ eStop' = [eStop EXCEPT ![l] = arg[1]]
  /\ cancelled' = IF arg[1] = Ctx(l) THEN [cancelled EXCEPT ![l] = arg[2]]
                  ELSE cancelled
  /\ pre' = [pre EXCEPT ![l] = arg[2]]
  /\ UNCHANGED <<callerVars, beatnVars, engVars, untilVars>>
  /\ UNCHANGED <<eVal, eErr, log, out, vClosed, consuming>>

\* RandIntStream.getDuration (v4t): a zero interval is replaced by 100 ms.
getDuration(cfg) ==
  IF PulseInterval(cfg) = 0 THEN 100 ELSE PulseInterval(cfg)

\* The interval handed to BeatUntil (v4t: to its twin getHeartbeat(stop, d)).
Interval(e) ==
  IF e.ver = "v4t" THEN getDuration(e.config) ELSE PulseWidth(e.config)

\* (as getHeartbeatCheck, the config tested first: a source is made from it
\* whenever there is one, the channel the engine was given used otherwise)
getHeartbeatCheck_ConfigFirst(l) ==
  /\ ePc[l] = "check"
  /\ IF r.config # Nil \/ r.hb = Nil
     THEN /\ ePc' = [ePc EXCEPT ![l] = "create"]
          /\ UNCHANGED eSrc
     ELSE /\ ePc' = [ePc EXCEPT ![l] = "select"]
          /\ eSrc' = [eSrc EXCEPT ![l] = r.hb]
  /\ UNCHANGED <<callerVars, beatnVars, cancelled, engVars, untilVars>>
  /\ UNCHANGED <<eStop, eVal, eErr, log, out, vClosed, consuming, pre>>

\* (as getHeartbeatCheck, a source made whether or not r.hb is set)
getHeartbeatCheck_NoNilTest(l) ==
  /\ ePc[l] = "check"
  /\ ePc' = [ePc EXCEPT ![l] = "create"]
  /\ UNCHANGED <<callerVars, beatnVars, cancelled, engVars, untilVars>>
  /\ UNCHANGED <<eStop, eSrc, eVal, eErr, log, out, vClosed, consuming, pre>>

\* getHeartbeat / getTicker, the test r.hb == nil.  v4 returns r.pulse
\* (r.ticker) at once when it is set; v6/v7 go on to read r.hb again for the
\* return value.
getHeartbeatCheck(l) ==
  /\ ePc[l] = "check"
  /\ IF r.hb = Nil
     THEN /\ ePc' = [ePc EXCEPT ![l] = "create"]
          /\ UNCHANGED eSrc
     ELSE IF ~Stores(r.ver)
     THEN /\ ePc' = [ePc EXCEPT ![l] = "select"]
          /\ eSrc' = [eSrc EXCEPT ![l] = r.hb]
     ELSE /\ ePc' = [ePc EXCEPT ![l] = "return"]
          /\ UNCHANGED eSrc
  /\ UNCHANGED <<callerVars, beatnVars, cancelled, engVars, untilVars>>
  /\ UNCHANGED <<eStop, eVal, eErr, log, out, vClosed, consuming, pre>>

\* getHeartbeat, heartbeat.BeatUntil(stop, r.PulseWidth()): PulseWidth on a
\* nil config panics; otherwise BeatUntil makes hb and spawns its goroutine.
\* v6/v7 store the channel in r.hb, v4 returns it without storing it.
getHeartbeatCreate(l) ==
  /\ ePc[l] = "create"
  /\ IF r.config = Nil
     THEN /\ ePc' = [ePc EXCEPT ![l] = "panic"]
          /\ UNCHANGED <<r, uPc, uStop, uD, eSrc>>
     ELSE /\ uPc' = [uPc EXCEPT ![l] = "select"]
          /\ uStop' = [uStop EXCEPT ![l] = eStop[l]]
          /\ uD' = [uD EXCEPT ![l] = Interval(r)]
          /\ IF ~Stores(r.ver)
             THEN /\ ePc' = [ePc EXCEPT ![l] = "select"]
                  /\ eSrc' = [eSrc EXCEPT ![l] = UntilHb(l)]
                  /\ UNCHANGED r
             ELSE /\ ePc' = [ePc EXCEPT ![l] = "return"]
                  /\ r' = [r EXCEPT !.hb = UntilHb(l)]
                  /\ UNCHANGED eSrc
  /\ UNCHANGED <<callerVars, beatnVars, cancelled, err, call>>
  /\ UNCHANGED <<eStop, eVal, eErr, log, out, vClosed, consuming, pre>>

\* getHeartbeat, return r.hb (v6/v7); the engine goroutine is spawned with it.
getHeartbeatReturn(l) ==
  /\ ePc[l] = "return"
  /\ eSrc' = [eSrc EXCEPT ![l] = r.hb]
  /\ ePc' = [ePc EXCEPT ![l] = "select"]
  /\ UNCHANGED <<callerVars, beatnVars, cancelled, engVars, untilVars>>
  /\ UNCHANGED <<eStop, eVal, eErr, log, out, vClosed, consuming, pre>>

\* (as HbClosed, a nil channel taken for a closed one)
HbClosed_NilReady(hb) ==
  IF hb = BeatnHb THEN bHbClosed
  ELSE IF hb = Nil THEN TRUE
  ELSE uPc[hb[2]] = "done"

\* Channel hb is closed (a receive on it is ready); a receive on a nil
\* channel never is.
HbClosed(hb) ==
  IF hb = BeatnHb THEN bHbClosed
  ELSE IF hb = Nil THEN FALSE
  ELSE uPc[hb[2]] = "done"

\* The (value, error) pairs a worker's work() can return: ones and randInt
\* never fail; a failing worker returns the zero value and an error, or 1.
work(w) ==
  IF w = "ones" THEN {[val |-> 1, err |-> FALSE]}
  ELSE IF w = "failing"
  THEN {[val |-> 0, err |-> TRUE], [val |-> 1, err |-> FALSE]}
  ELSE {[val |-> v, err |-> FALSE] : v \in RandInts}

\* (as Work, a failed work() skipped: the loop goes on without sending)
Work_SkipsFailure(l) ==
  \E res \in work(r.worker) :
    /\ eVal' = [eVal EXCEPT ![l] = IF res.err THEN @ ELSE res.val]
    /\ eErr' = [eErr EXCEPT ![l] = res.err]
    /\ log' = [log EXCEPT ![l] = Append(@, res.val)]
    /\ ePc' = [ePc EXCEPT ![l] = IF res.err THEN "select" ELSE "send"]

\* The body of case <-heartbeat up to the inner select: val, _ := r.work()
\* (v4/v6: doWork()); the error is dropped and val is pending on values.
Work(l) ==
  \E res \in work(r.worker) :
    /\ eVal' = [eVal EXCEPT ![l] = res.val]
    /\ eErr' = [eErr EXCEPT ![l] = res.err]
    /\ log' = [log EXCEPT ![l] = Append(@, res.val)]
    /\ ePc' = [ePc EXCEPT ![l] = "send"]

\* (as PulseBeatn, one hb <- Beat{} received by every call waiting on hb)
PulseBeatn_Broadcast(l) ==
  /\ ePc[l] = "select"
  /\ eSrc[l] = BeatnHb
  /\ bPc = "send"
  /\ bI' = bI + 1
  /\ bPc' = BeatnAfterSend(bI + 1, bN)
  /\ \E v \in RandInts :
       LET G == {k \in Loops : ePc[k] = "select" /\ eSrc[k] = BeatnHb}
       IN /\ eVal' = [k \in Loops |-> IF k \in G THEN v ELSE eVal[k]]
          /\ eErr' = [k \in Loops |-> IF k \in G THEN FALSE ELSE eErr[k]]
          /\ log' = [k \in Loops |-> IF k \in G THEN Append(log[k], v) ELSE log[k]]
          /\ ePc' = [k \in Loops |-> IF k \in G THEN "send" ELSE ePc[k]]
  /\ UNCHANGED <<callerVars, bN, bHbClosed, bDoneClosed, cancelled, engVars, untilVars>>
  /\ UNCHANGED <<eStop, eSrc, out, vClosed, consuming, pre>>

\* case <-heartbeat, meeting Beatn's hb <- Beat{}; Beatn runs i++ and its
\* loop test.
PulseBeatn(l) ==
  /\ ePc[l] = "select"
  /\ eSrc[l] = BeatnHb
  /\ bPc = "send"
  /\ bI' = bI + 1
  /\ bPc' = BeatnAfterSend(bI + 1, bN)
  /\ Work(l)
  /\ UNCHANGED <<callerVars, bN, bHbClosed, bDoneClosed, cancelled, engVars, untilVars>>
  /\ UNCHANGED <<eStop, eSrc, out, vClosed, consuming, pre>>

\* case <-heartbeat, meeting BeatUntil's hb <- Beat{}; BeatUntil goes back to
\* its select.
PulseUntil(l, u) ==
  /\ ePc[l] = "select"
  /\ eSrc[l] = UntilHb(u)
  /\ uPc[u] = "send"
  /\ uPc' = [uPc EXCEPT ![u] = "select"]
  /\ Work(l)
  /\ UNCHANGED <<callerVars, beatnVars, cancelled, engVars, uStop, uD>>
  /\ UNCHANGED <<eStop, eSrc, out, vClosed, consuming, pre>>

\* case <-heartbeat on a closed channel: the receive yields the zero Beat.
PulseClosed(l) ==
  /\ ePc[l] = "select"
  /\ HbClosed(eSrc[l])
  /\ Work(l)
  /\ UNCHANGED <<callerVars, beatnVars, cancelled, engVars, untilVars>>
  /\ UNCHANGED <<eStop, eSrc, out, vClosed, consuming, pre>>

\* Results received by the consumers so far.
RECURSIVE SumLen(_, _)
SumLen(f, S) ==
  IF S = {} THEN 0
  ELSE LET x == CHOOSE y \in S : TRUE IN Len(f[x]) + SumLen(f, S \ {x})

Delivered == SumLen(out, Loops)

\* (as Send, the consumer handed the result ahead of the earlier ones)
Send_Reorders(l) ==
  /\ ePc[l] = "send"
  /\ consuming[l]
  /\ Delivered < budget
  /\ out' = [out EXCEPT ![l] = <<eVal[l]>> \o @]
  /\ ePc' = [ePc EXCEPT ![l] = "select"]
  /\ UNCHANGED <<callerVars, beatnVars, cancelled, engVars, untilVars>>
  /\ UNCHANGED <<eStop, eSrc, eVal, eErr, log, vClosed, consuming, pre>>

\* case values <- val, meeting the consumer's receive.
Send(l) ==
  /\ ePc[l] = "send"
  /\ consuming[l]
  /\ Delivered < budget
  /\ out' = [out EXCEPT ![l] = Append(@, eVal[l])]
  /\ ePc' = [ePc EXCEPT ![l] = "select"]
  /\ UNCHANGED <<callerVars, beatnVars, cancelled, engVars, untilVars>>
  /\ UNCHANGED <<eStop, eSrc, eVal, eErr, log, vClosed, consuming, pre>>

\* (as Return, the engine closing the heartbeat channel it was given)
Return_ClosesSource(l) ==
  /\ ePc' = [ePc EXCEPT ![l] = "done"]
  /\ vClosed' = [vClosed EXCEPT ![l] = TRUE]
  /\ bHbClosed' = (bHbClosed \/ eSrc[l] = BeatnHb)
  /\ UNCHANGED <<callerVars, bPc, bN, bI, bDoneClosed, cancelled, engVars, untilVars>>
  /\ UNCHANGED <<eStop, eSrc, eVal, eErr, log, out, consuming, pre>>

\* return, running defer close(values).
Return(l) ==
  /\ ePc' = [ePc EXCEPT ![l] = "done"]
  /\ vClosed' = [vClosed EXCEPT ![l] = TRUE]
  /\ UNCHANGED <<callerVars, beatnVars, cancelled, engVars, untilVars>>
  /\ UNCHANGED <<eStop, eSrc, eVal, eErr, log, out, consuming, pre>>

\* (as StopOuter, values closed in the stop case without leaving the loop)
StopOuter_NoReturn(l) ==
  /\ ePc[l] = "select"
  /\ IsClosed(eStop[l])
  /\ vClosed' = [vClosed EXCEPT ![l] = TRUE]
  /\ UNCHANGED <<callerVars, beatnVars, cancelled, engVars, untilVars>>
  /\ UNCHANGED <<ePc, eStop, eSrc, eVal, eErr, log, out, consuming, pre>>

\* case <-stop of the outer select.
StopOuter(l) ==
  /\ ePc[l] = "select"
  /\ IsClosed(eStop[l])
  /\ Return(l)

\* (as StopInner, the second case written default: a result no consumer
\* is waiting for is given up and the loop goes on)
StopInner_Default(l) ==
  /\ ePc[l] = "send"
  /\ InnerSelect(r.ver)
  /\ ePc' = [ePc EXCEPT ![l] = "select"]
  /\ UNCHANGED <<callerVars, beatnVars, cancelled, engVars, untilVars>>
  /\ UNCHANGED <<eStop, eSrc, eVal, eErr, log, out, vClosed, consuming, pre>>

\* (as StopInner, the send written without a select: values <- val)
StopInner_PlainSend(l) ==
  /\ ePc[l] = "send"
  /\ FALSE
  /\ Return(l)

\* case <-stop of the inner select, the result still pending.
StopInner(l) ==
  /\ ePc[l] = "send"
  /\ InnerSelect(r.ver)
  /\ IsClosed(eStop[l])
  /\ Return(l)

\* The consumer stops receiving from values (seen by the engine only while a
\* result is pending).
ConsumerLeave(l) ==
  /\ ePc[l] = "send"
  /\ consuming[l]
  /\ consuming' = [consuming EXCEPT ![l] = FALSE]
  /\ UNCHANGED <<callerVars, beatnVars, cancelled, engVars, untilVars>>
  /\ UNCHANGED <<ePc, eStop, eSrc, eVal, eErr, log, out, vClosed, pre>>

\* --------------------------------------------------- heartbeat.BeatUntil
\* (as UntilTick, the stop case leaving the select but not the loop)
UntilTick_AfterStop(u) ==
  /\ uPc[u] \in {"select", "done"}
  /\ uPc' = [uPc EXCEPT ![u] = "send"]
  /\ UNCHANGED <<callerVars, beatnVars, cancelled, engVars, uStop, uD, loopVars>>

\* case <-time.After(d): the interval has elapsed; the goroutine is now at
\* hb <- Beat{}.
UntilTick(u) ==
  /\ uPc[u] = "select"
  /\ uPc' = [uPc EXCEPT ![u] = "send"]
  /\ UNCHANGED <<callerVars, beatnVars, cancelled, engVars, uStop, uD, loopVars>>

\* case <-stop: return, running defer close(hb).
UntilStop(u) ==
  /\ uPc[u] = "select"
  /\ IsClosed(uStop[u])
  /\ uPc' = [uPc EXCEPT ![u] = "done"]
  /\ UNCHANGED <<callerVars, beatnVars, cancelled, engVars, uStop, uD, loopVars>>

\* ------------------------------------------------------------------ system
\* A caller that has made a Beatn source hands it to the engine.
Handed(res) == bPc = "none" \/ res.r.hb = BeatnHb

Construct ==
  \/ \E cfg \in CfgArgs, opts \in OptArgs :
       /\ Handed(NewRandIntStream_v4(cfg, opts))
       /\ CallNewRandIntStream_v4(cfg, opts)
  \/ \E cfg \in CfgArgs, opts \in OptArgs :
       /\ Handed(NewRandIntStream_v4t(cfg, opts))
       /\ CallNewRandIntStream_v4t(cfg, opts)
  \/ \E hb \in HbArgs : conf = Nil /\ CallNewRandIntStream_v2(hb)
  \/ \E hb \in HbArgs : conf = Nil /\ CallNewRandIntStreamf(hb)
  \/ \E cfg \in CfgArgs : bPc = "none" /\ CallNewRandIntStream_v6(cfg)
  \/ \E hb \in HbArgs : conf = Nil /\ CallNewResultStreamf(hb)
  \/ \E cfg \in CfgArgs : bPc = "none" /\ CallNewResultStream(cfg)
  \/ \E w \in Workers : TestResultStream(w)

Engine(l) ==
  \/ \E arg \in StopArgs(l) : Start(l, arg)
  \/ getHeartbeatCheck(l)
  \/ getHeartbeatCreate(l)
  \/ getHeartbeatReturn(l)
  \/ PulseBeatn(l)
  \/ \E u \in Loops : PulseUntil(l, u)
  \/ PulseClosed(l)
  \/ Send(l)
  \/ StopOuter(l)
  \/ StopInner(l)

Next ==
  \/ \E opts \in PulseOpts : CallNewConfig(opts)
  \/ \E n \in 0..MaxN : Beatn(n)
  \/ BeatnCloseHb
  \/ BeatnCloseDone
  \/ \E t \in Tokens : Cancel(t)
  \/ Construct
  \/ \E l \in Loops : Engine(l)
  \/ \E l \in Loops : ConsumerLeave(l)
  \/ \E u \in Loops : UntilTick(u)
  \/ \E u \in Loops : UntilStop(u)

Spec == Init /\ [][Next]_vars

SpecTwo == InitTwo /\ [][Next]_vars

SpecSeq == InitSeq /\ [][Next]_vars

\* Scheduling: every goroutine that can take a step eventually takes one (a
\* select whose stop case stays ready eventually takes it), a timer that was
\* set fires, and a consumer that is still receiving receives.  Nothing
\* obliges the caller to construct, start or cancel.
EngineFair(l) ==
  /\ WF_vars(getHeartbeatCheck(l))
  /\ WF_vars(getHeartbeatCreate(l))
  /\ WF_vars(getHeartbeatReturn(l))
  /\ WF_vars(PulseBeatn(l) \/ PulseClosed(l) \/ \E u \in Loops : PulseUntil(l, u))
  /\ WF_vars(Send(l))
  /\ WF_vars(StopOuter(l) \/ StopInner(l))

Fairness ==
  /\ WF_vars(BeatnCloseHb)
  /\ WF_vars(BeatnCloseDone)
  /\ \A l \in Loops : EngineFair(l)
  /\ \A u \in Loops : WF_vars(UntilTick(u)) /\ WF_vars(UntilStop(u))

FairSpec == Spec /\ Fairness

TypeOK ==
  /\ calls \in Loops /\ callers \in 1..calls /\ budget \in 1..MaxOut
  /\ conf \in {Nil} \cup {Config(d) : d \in Durations \cup {DefaultPulseWidth}}
  /\ bPc \in {"none", "send", "closeHb", "closeDone", "done"}
  /\ bN \in 0..MaxN /\ bI \in 0..MaxN
  /\ err \in {"none", "nil", "error"}
  /\ \A l \in Loops :
       /\ ePc[l] \in {"idle", "check", "create", "return", "select",
                      "send", "done", "panic"}
       /\ uPc[l] \in {"none", "select", "send", "done"}
       /\ Len(out[l]) <= MaxOut
       /\ uD[l] \in Durations \cup {DefaultPulseWidth, 100}

\* ------------------------------------------------------------------ claims
\* Call l was made (Start / worker / serve has been entered).
Started(l) == ePc[l] # "idle"

\* Call l was handed a context's Done channel (Start), not Beatn's done.
OnContext(l) == Started(l) /\ eStop[l] # BeatnDone

\* s is a prefix of t.
IsPrefix(s, t) == Len(s) <= Len(t) /\ \A k \in 1..Len(s) : s[k] = t[k]

\* C1 (safety half of the count property): an engine started with Start
\* against a Beatn(n) source, its token not cancelled, has delivered at most n
\* results, each of them the value of the work invocation of the same rank.
C1_CountProperty ==
  \A l \in Loops :
    (OnContext(l) /\ eSrc[l] = BeatnHb /\ ~IsClosed(eStop[l]))
      => (Len(out[l]) <= bN /\ IsPrefix(out[l], log[l]))

\* C2: when the pulse source's stream is closed by its producer, the engine's
\* output stream is eventually closed unless cancellation fires (the stop
\* signal, once raised, stays raised).
C2_ClosedSourceClosesOutput ==
  \A l \in Loops :
    (OnContext(l) /\ HbClosed(eSrc[l])) ~> (vClosed[l] \/ IsClosed(eStop[l]))

\* C3: once its stop signal is raised, a started engine loop whose send is
\* in a select with stop (v4 randIntStream, v6, v7) eventually closes its
\* output stream and terminates, from every state, also with a result
\* pending that no consumer will receive.
C3_CancellationMidSend ==
  \A l \in Loops :
    (Started(l) /\ InnerSelect(r.ver) /\ IsClosed(eStop[l]))
      ~> (ePc[l] = "done" /\ vClosed[l])

\* C3 witness: the engine returned on its stop signal with a produced result
\* still pending, the consumer having stopped receiving.
C3_Witness ==
  /\ ePc[1] = "done" /\ vClosed[1] /\ IsClosed(eStop[1])
  /\ ~consuming[1]
  /\ Len(log[1]) = Len(out[1]) + 1

\* C4: a call whose cancellation token was raised before it received any
\* pulse delivers no result.
C4_CancellationPreemption ==
  \A l \in Loops : (OnContext(l) /\ pre[l]) => out[l] = <<>>

\* C5: Beatn(n) hands over at most n pulses, each to a receiver; its streams
\* close only after n pulses were received, hb before done; and once n pulses
\* were received both streams are eventually closed.
C5_BeatnSafe ==
  /\ bI <= bN
  /\ (bPc = "send") => bI < bN
  /\ bHbClosed => bI = bN
  /\ bDoneClosed => bHbClosed

C5_Beatn ==
  /\ []C5_BeatnSafe
  /\ (bPc # "none" /\ bI = bN) ~> (bHbClosed /\ bDoneClosed)

\* C5 witness: a Beatn(n) with n > 0 has handed over all its pulses and both
\* its streams are closed.
C5_Witness == bN = MaxN /\ bI = bN /\ bHbClosed /\ bDoneClosed

\* BeatUntil goroutine u hands a pulse to a receiver in this step.
UntilDelivers(u) == uPc[u] = "send" /\ uPc'[u] = "select"

\* C6: when an engine that lazily made its BeatUntil source is cancelled,
\* both the engine loop and the pulse-source loop eventually terminate and
\* the pulse stream is closed.
C6_NoLeakOnShutdown ==
  \A l \in Loops :
    (uPc[l] # "none" /\ IsClosed(eStop[l]))
      ~> (ePc[l] = "done" /\ uPc[l] = "done" /\ HbClosed(UntilHb(l)))

\* C7 as claimed: from any state in which the stop signal has been raised,
\* BeatUntil delivers no further pulse.
C7_NoPulseAfterStopRaised ==
  [][\A u \in Loops : IsClosed(uStop[u]) => ~UntilDelivers(u)]_vars

\* C7 amended: from any state in which BeatUntil's loop has observed the stop
\* signal (taken its stop case), no further pulse is delivered and the stream
\* is and stays closed; the loop leaves on the stop case only, from its
\* select, never with a pulse in hand.
C7_NoPulseAfterStopObserved ==
  [][\A u \in Loops :
       /\ uPc[u] = "done" => (uPc'[u] = "done" /\ ~UntilDelivers(u))
       /\ (uPc[u] # "done" /\ uPc'[u] = "done")
            => (uPc[u] = "select" /\ IsClosed(uStop[u]))]_vars

\* C7 witness: a BeatUntil that has delivered a pulse has observed stop and
\* closed its stream.
C7_Witness ==
  /\ uPc[1] = "done" /\ HbClosed(UntilHb(1)) /\ IsClosed(uStop[1])
  /\ eSrc[1] = UntilHb(1) /\ Len(log[1]) > 0

\* C8: the engine never closes a caller-supplied Beatn stream nor ends its
\* producer: while pulses are unconsumed the source stays open, its done
\* stream un-closed and its goroutine at its send, also after the engine
\* stopped.
C8_ExplicitSourceUntouched ==
  (bPc # "none" /\ bI < bN)
    => (~bHbClosed /\ ~bDoneClosed /\ bPc = "send")

\* C8 witness: an engine on an explicit Beatn source was cancelled and has
\* stopped while the source still holds unconsumed pulses.
C8_Witness ==
  /\ r.hb = BeatnHb /\ eSrc[1] = BeatnHb
  /\ OnContext(1) /\ IsClosed(eStop[1])
  /\ ePc[1] = "done" /\ vClosed[1]
  /\ bI < bN /\ ~bHbClosed /\ ~bDoneClosed

\* The explicit pulse source a list of options leaves: that of the last one.
Explicit(opts) == IF opts = <<>> THEN Nil ELSE opts[Len(opts)]

\* C9: the v4 constructor returns an error and no engine exactly when both
\* the configuration and the explicit pulse source are absent, and otherwise
\* an engine holding them and no error.
C9_CombinedConstructor ==
  [][\A cfg \in CfgArgs, opts \in OptArgs :
       CallNewRandIntStream_v4(cfg, opts)
         => /\ (err' = "error") <=> (cfg = Nil /\ Explicit(opts) = Nil)
            /\ (err' = "error") => r' = NoEngine
            /\ (err' # "error")
                 => (err' = "nil" /\ r'.config = cfg /\ r'.hb = Explicit(opts))]_vars

\* C9 witness: the v4 constructor was called with neither and failed.
C9_Witness == call = "v4.NewRandIntStream" /\ err = "error" /\ r = NoEngine

\* What a single-dependency constructor owes for argument arg: an error and
\* no engine when arg is nil, else an engine and no error.
SingleDependency(arg) ==
  IF arg = Nil THEN err' = "error" /\ r' = NoEngine
  ELSE err' = "nil" /\ r' # NoEngine

\* C10: each single-dependency constructor returns an error and a nil engine
\* when its argument is absent, and an engine holding the argument and no
\* error otherwise.
C10_SingleDependencyConstructors ==
  [][/\ \A hb \in HbArgs :
          /\ CallNewRandIntStreamf(hb)
               => (SingleDependency(hb) /\ r'.hb = hb /\ r'.config = Nil)
          /\ CallNewResultStreamf(hb)
               => (SingleDependency(hb) /\ r'.hb = hb /\ r'.config = Nil)
     /\ \A cfg \in CfgArgs :
          /\ CallNewRandIntStream_v6(cfg)
               => (SingleDependency(cfg) /\ r'.config = cfg /\ r'.hb = Nil)
          /\ CallNewResultStream(cfg)
               => (SingleDependency(cfg) /\ r'.config = cfg /\ r'.hb = Nil)]_vars

\* C10 witness: a single-dependency constructor was called with nil and
\* failed.
C10_Witness == call = "v6.NewRandIntStreamf" /\ err = "error" /\ r = NoEngine

\* C11: config.NewConfig returns a config whose PulseWidth is 250 ms when it
\* is called with no option, and otherwise the duration of the last
\* WithPulseWidth option handed to it.
C11_ConfigDefault ==
  [][\A opts \in PulseOpts :
       CallNewConfig(opts)
         => PulseWidth(conf') = (IF opts = <<>> THEN 250 ELSE opts[Len(opts)])]_vars

\* C11 witness: a config made with options reports a duration that is not
\* the default, and an engine was constructed from it.
C11_Witness ==
  /\ conf # Nil /\ PulseWidth(conf) = 500
  /\ err = "nil" /\ r.config = conf

\* C12: the BeatUntil source an engine lazily creates from a config whose
\* pulse interval is zero beats at the default interval of 250 ms.
C12_ZeroIntervalDefault ==
  \A u \in Loops :
    (uPc[u] # "none" /\ r.config # Nil /\ PulseWidth(r.config) = 0)
      => uD[u] = 250

\* Engine call l calls work() in this step.
Works(l) == Len(log'[l]) = Len(log[l]) + 1

\* C13: a work() that reports an error does not stop the engine: the
\* returned value becomes the pending result with the stream open, and that
\* result leaves only by being delivered, the loop going back to wait for
\* the next pulse, or by the stop case.
C13_WorkFailureSwallowed ==
  [][\A l \in Loops :
       /\ (Works(l) /\ eErr'[l])
            => /\ ePc'[l] = "send" /\ ~vClosed'[l]
               /\ eVal'[l] = log'[l][Len(log'[l])]
       /\ (ePc[l] = "send" /\ eErr[l] /\ ePc'[l] # "send")
            => \/ /\ out'[l] = Append(out[l], eVal[l])
                  /\ ePc'[l] = "select" /\ ~vClosed'[l]
               \/ IsClosed(eStop[l]) /\ ePc'[l] = "done"]_vars

\* C13 witness: the value of a failed work() was delivered and the engine
\* has gone on to work on a later pulse, its stream open.
C13_Witness ==
  /\ r.worker = "failing"
  /\ Len(out[1]) >= 1 /\ out[1][1] = 0
  /\ Len(log[1]) >= 2 /\ ~vClosed[1]

\* C14: the pulse-to-result cycles of an engine call run one after the
\* other and in order: work() is called only when every earlier result was
\* delivered, so at most one produced result is undelivered, and the k-th
\* result delivered is the value of the k-th work() call.
C14_SequentialOrdered ==
  /\ [](\A l \in Loops :
         IsPrefix(out[l], log[l]) /\ Len(log[l]) <= Len(out[l]) + 1)
  /\ [][\A l \in Loops :
         /\ Works(l) => (Len(log[l]) = Len(out[l]) /\ out'[l] = out[l])
         /\ (out'[l] # out[l])
              => /\ log'[l] = log[l]
                 /\ out'[l] = SubSeq(log[l], 1, Len(out[l]) + 1)]_vars

\* C14 witness: two results with different values were delivered, in the
\* order of the work() calls that produced them, and a third is pending.
C14_Witness ==
  /\ Len(out[1]) = 2 /\ out[1][1] # out[1][2]
  /\ Len(log[1]) = 3 /\ ePc[1] = "send"

\* Call l is worker(isTicking): its stop channel is the done channel of the
\* Beatn source it beats on.
OnDone(l) == Started(l) /\ eStop[l] = BeatnDone /\ eSrc[l] = BeatnHb

\* C15: an engine whose stop signal is the done stream of its Beatn(n)
\* source, its consumer draining the output, delivers no more than n results
\* and has delivered exactly n when its output stream is closed.
C15_ExactlyNOnDone ==
  \A l \in Loops :
    (OnDone(l) /\ consuming[l])
      => /\ Len(out[l]) <= bN
         /\ vClosed[l] => Len(out[l]) = bN

\* The engine calls beating on the Beatn source.
OnBeatn == {l \in Loops : eSrc[l] = BeatnHb}

\* C16: work() is called only for a pulse the source emitted, once per
\* pulse: the work() calls of the engine calls on a Beatn source, and so the
\* results they delivered, never outnumber the pulses Beatn has handed over.
C16_WorkOnlyOnPulse ==
  /\ SumLen(log, OnBeatn) <= bI
  /\ SumLen(out, OnBeatn) <= bI

\* C17: once its stop signal is raised an engine call delivers no further
\* result, also not the one that is pending.
C17_NoResultAfterCancel ==
  [][\A l \in Loops :
       (Started(l) /\ IsClosed(eStop[l])) => out'[l] = out[l]]_vars

\* C18: the output stream of an engine call is closed once, by the loop's
\* return on its stop case as the loop's last step: the stream is closed
\* exactly when the loop has returned, and from then on it stays so, with no
\* further work() call and no further result.
C18_ClosedOnce ==
  /\ [](\A l \in Loops : vClosed[l] <=> ePc[l] = "done")
  /\ [][\A l \in Loops :
         /\ vClosed[l]
              => /\ vClosed'[l] /\ ePc'[l] = "done"
                 /\ out'[l] = out[l] /\ log'[l] = log[l]
         /\ (~vClosed[l] /\ vClosed'[l])
              => /\ ePc[l] \in {"select", "send"} /\ IsClosed(eStop[l])
                 /\ out'[l] = out[l] /\ log'[l] = log[l]]_vars

\* C18 witness: an engine call that delivered a result has returned and its
\* output stream is closed.
C18_Witness == ePc[1] = "done" /\ vClosed[1] /\ Len(out[1]) >= 1

\* C19: the constructors make no pulse source and start no loop; a BeatUntil
\* source is made only inside a started call, by its getHeartbeat, on the
\* call's stop channel, and never while the engine holds an explicit source.
C19_LazyResolution ==
  /\ [](\A u \in Loops : uPc[u] # "none" => (Started(u) /\ r.config # Nil))
  /\ [](r.hb = BeatnHb => \A u \in Loops : uPc[u] = "none")
  /\ [][/\ (err = "none")
            => \A u \in Loops : uPc'[u] = "none" /\ ePc'[u] = "idle"
       /\ \A u \in Loops :
            (uPc[u] = "none" /\ uPc'[u] # "none")
              => /\ ePc[u] = "create" /\ r.hb # BeatnHb
                 /\ uStop'[u] = eStop[u]]_vars

\* C19 witness: an engine constructed from a config alone has been started
\* and its getHeartbeat has made and stored a BeatUntil source.
C19_Witness ==
  /\ call = "v6.NewRandIntStream" /\ err = "nil"
  /\ uPc[1] # "none" /\ r.hb = UntilHb(1) /\ uStop[1] = eStop[1]

\* The BeatUntil sources made so far.
Made == {u \in Loops : uPc[u] # "none"}

\* C20: on a v6 or v7 engine whose Start calls follow one another, the
\* source reference is resolved at most once: at most one BeatUntil is ever
\* made, the call that makes it stores it, a stored reference is never
\* replaced, and every call beats on the stored source.
C20_ResolvedOnce ==
  /\ [](r.ver \in {"v6", "v7"}
         => /\ Cardinality(Made) <= 1
            /\ \A l \in Loops :
                 ePc[l] \in {"select", "send", "done"} => eSrc[l] = r.hb)
  /\ [][r.ver \in {"v6", "v7"}
         => /\ r.hb # Nil => r'.hb = r.hb
            /\ \A u \in Loops :
                 (uPc[u] = "none" /\ uPc'[u] # "none")
                   => (r.hb = Nil /\ r'.hb = UntilHb(u))]_vars

\* C20 witness: the second of two Start calls runs on the BeatUntil source
\* the first one made, and has made none of its own.
C20_Witness ==
  /\ r.ver = "v6" /\ Made = {1}
  /\ ePc[1] \in {"select", "send"} /\ ePc[2] \in {"select", "send"}
  /\ eSrc[1] = UntilHb(1) /\ eSrc[2] = UntilHb(1)

\* Call l has left getHeartbeat and runs its loop (or has returned from it).
Looping(l) == ePc[l] \in {"select", "send", "done"}

\* C21: when the Start calls on a v6 or v7 engine overlap, the test and the
\* assignment of r.hb still make exactly one BeatUntil source, and the loops
\* of all calls beat on the same stream.
C21_RaceFreeResolution ==
  r.ver \in {"v6", "v7"}
    => /\ Cardinality(Made) <= 1
       /\ \A l, k \in Loops :
            (Looping(l) /\ Looping(k)) => eSrc[l] = eSrc[k]

\* The engine holds both a config and an explicit pulse source.
HoldsBoth == r.config # Nil /\ r.hb = BeatnHb

\* C22: an engine that holds both a config and an explicit pulse source
\* beats on the explicit source: no BeatUntil is made, the loop's channel is
\* the explicit one, and every work() call follows a receive on it (a pulse
\* handed over by its producer, or the receive on it once it is closed).
C22_ExplicitSourcePriority ==
  /\ [](HoldsBoth
         => /\ Made = {}
            /\ \A l \in Loops : Looping(l) => eSrc[l] = BeatnHb)
  /\ [][\A l \in Loops :
         (HoldsBoth /\ Works(l))
           => /\ eSrc[l] = BeatnHb
              /\ bI' = bI + 1 \/ bHbClosed]_vars

\* C22 witness: an engine holding both has worked on a pulse of the explicit
\* source and no BeatUntil exists.
C22_Witness ==
  /\ HoldsBoth /\ call = "v4.NewRandIntStream"
  /\ eSrc[1] = BeatnHb /\ bI >= 1 /\ Len(log[1]) >= 1 /\ Made = {}

\* C23: the calls of an engine started twice on one explicit source have
\* output streams of their own and share the source with exclusive
\* consumption: each pulse Beatn hands over starts the work of exactly one
\* call, a result is delivered on one stream only, and the closing of one
\* stream leaves the other call and its stream as they were.
C23_ExclusiveConsumption ==
  [][/\ bI' \in {bI, bI + 1}
     /\ (bI' = bI + 1)
          => \E l \in OnBeatn :
               /\ Works(l)
               /\ \A k \in Loops \ {l} : log'[k] = log[k] /\ ePc'[k] = ePc[k]
     /\ \A l \in Loops :
          (out'[l] # out[l] \/ vClosed'[l] # vClosed[l])
            => \A k \in Loops \ {l} :
                 /\ out'[k] = out[k] /\ vClosed'[k] = vClosed[k]
                 /\ ePc'[k] = ePc[k]]_vars

\* C23 witness: each of two calls on a Beatn(2) source has received one of
\* its two pulses, and the first call's stream is closed while the second's
\* is open.
C23_Witness ==
  /\ r.hb = BeatnHb /\ OnBeatn = Loops
  /\ bN = 2 /\ bI = 2 /\ ~bHbClosed
  /\ Len(log[1]) = 1 /\ Len(log[2]) = 1
  /\ vClosed[1] /\ ~vClosed[2]

\* The engine is a v2 RandIntStream made with a nil heartbeat channel.
NilHeartbeat == r.ver = "v2" /\ err = "nil" /\ r.hb = Nil

\* C24: a v2 RandIntStream made with a nil heartbeat channel never calls
\* doWork and delivers no result, and its output stream is closed only by a
\* step taken with the stop signal raised.
C24_NilHeartbeatNoWork ==
  /\ [](NilHeartbeat
         => \A l \in Loops :
              /\ log[l] = <<>> /\ out[l] = <<>>
              /\ vClosed[l] => IsClosed(eStop[l]))
  /\ [][\A l \in Loops :
         (NilHeartbeat /\ ~vClosed[l] /\ vClosed'[l])
           => (IsClosed(eStop[l]) /\ ePc[l] = "select")]_vars

\* C24 witness: a call on such an engine has returned on its stop signal,
\* its stream closed and no work done.
C24_Witness ==
  /\ NilHeartbeat /\ eSrc[1] = Nil
  /\ ePc[1] = "done" /\ vClosed[1] /\ IsClosed(eStop[1])
  /\ log[1] = <<>>

\* C25: in every state of an engine call, results delivered <= work() calls
\* <= results delivered + 1; while the loop waits for a pulse every result
\* produced so far was delivered; a produced result is given up only by the
\* loop's return on its stop case, with the stop signal raised, so at most
\* one is ever dropped.
C25_LoopInvariant ==
  /\ [](\A l \in Loops :
         /\ Len(out[l]) <= Len(log[l])
         /\ Len(log[l]) <= Len(out[l]) + 1
         /\ ePc[l] \in {"idle", "check", "create", "return", "select"}
              => Len(log[l]) = Len(out[l])
         /\ (ePc[l] = "done" /\ Len(log[l]) # Len(out[l]))
              => IsClosed(eStop[l]))
  /\ [][\A l \in Loops :
         (ePc[l] = "send" /\ ePc'[l] # "send" /\ out'[l] = out[l])
           => (IsClosed(eStop[l]) /\ ePc'[l] = "done")]_vars

\* C25 witness: a call that delivered a result has returned on its stop
\* signal and dropped the one result that was pending, its consumer still
\* receiving.
C25_Witness ==
  /\ ePc[1] = "done" /\ IsClosed(eStop[1]) /\ consuming[1]
  /\ Len(out[1]) >= 1 /\ Len(log[1]) = Len(out[1]) + 1

\* C26: Beatn closes its pulse stream before its done stream and sends
\* nothing on done: whenever done is closed, and so in every step a call
\* takes on a receive from done, the pulse stream is closed and exactly n
\* pulses were handed over, each to a receiving call.
C26_CloseOrder ==
  /\ [](bDoneClosed
         => /\ bHbClosed /\ bPc = "done"
            /\ bI = bN /\ bI <= SumLen(log, OnBeatn))
  /\ [][/\ (~bHbClosed /\ bHbClosed') => (~bDoneClosed' /\ bI = bN)
       /\ (~bDoneClosed /\ bDoneClosed') => bHbClosed
       /\ \A l \in Loops :
            (OnDone(l) /\ ~vClosed[l] /\ vClosed'[l])
              => (bDoneClosed /\ bHbClosed /\ bI = bN)]_vars

\* C26 witness: a call whose stop channel is the done stream of a Beatn(2)
\* has observed it closed and returned, both pulses handed over.
C26_Witness ==
  /\ OnDone(1) /\ ePc[1] = "done" /\ vClosed[1]
  /\ bN = 2 /\ bI = 2 /\ bDoneClosed /\ bHbClosed

\* The engine was returned, with a nil error, by a constructor that can
\* return an error (those of v4, v6 and v7).
Returned == err = "nil" /\ r.ver \in {"v4", "v4t", "v6", "v7"}

\* C27: an engine returned without error by a constructor holds a config or
\* a pulse source, and keeps doing so; no call on it, however many are made,
\* reads the pulse interval of a nil config: getHeartbeat goes on to make a
\* source only with a config at hand and never panics.
C27_NeverNilConfigRead ==
  /\ [](Returned => (r.config # Nil \/ r.hb # Nil))
  /\ [](\A l \in Loops : ePc[l] # "panic")
  /\ [][\A l \in Loops :
         (ePc[l] = "create" /\ ePc'[l] # "create")
           => (r.config # Nil /\ uPc'[l] = "select")]_vars

\* C27 witness: an engine made from a pulse source alone, its config nil,
\* was started twice and both loops run, the second having worked.
C27_Witness ==
  /\ call = "v6.NewRandIntStreamf" /\ err = "nil" /\ r.config = Nil
  /\ Looping(1) /\ Looping(2) /\ Len(log[2]) >= 1

====
